---------------------------- MODULE Spec2Model ----------------------------
(***************************************************************************)
(* Duty-roster ingestion pipeline of pharmanio-backend.                    *)
(*                                                                         *)
(*   src/scraper.py   fetch, parse, match, reconcile                       *)
(*   src/main.py      expiry check (startup + daily job), /on-duty reader  *)
(*   src/database.py  the three tables                                     *)
(*                                                                         *)
(* Text is a sequence of one-character strings, so that upper(), lower()   *)
(* and the similarity ratio are computed rather than assumed.  A date is a *)
(* triple <<year, month, day>>; an ISO string 'YYYY-MM-DD' orders like the  *)
(* triple.  Python's None is NoId where an id is expected (ids are         *)
(* AUTOINCREMENT, so 1 or more) and NoDate where a date string is; an      *)
(* optional row is a sequence of no or one row.                            *)
(***************************************************************************)
EXTENDS Integers, Sequences, FiniteSets, TLC

NoId == 0
NoDate == <<>>

\* ------------------------------------------------------------------ text
\* Characters are those of Latin-1 from U+0001 on, the grave accent U+0060
\* left out, and the Greek letter mu, small and capital.  str.upper() has no
\* value here on U+00FF: its capital, U+0178, is no character of these.

\* the letters c with c.upper() one Latin-1 character that lowers back to c
LowerLetters == <<"a","b","c","d","e","f","g","h","i","j","k","l","m","n",
                  "o","p","q","r","s","t","u","v","w","x","y","z","à","á",
                  "â","ã","ä","å","æ","ç","è","é","ê","ë","ì","í","î","ï",
                  "ð","ñ","ò","ó","ô","õ","ö","ø","ù","ú","û","ü","ý","þ">>
UpperLetters == <<"A","B","C","D","E","F","G","H","I","J","K","L","M","N",
                  "O","P","Q","R","S","T","U","V","W","X","Y","Z","À","Á",
                  "Â","Ã","Ä","Å","Æ","Ç","È","É","Ê","Ë","Ì","Í","Î","Ï",
                  "Ð","Ñ","Ò","Ó","Ô","Õ","Ö","Ø","Ù","Ú","Û","Ü","Ý","Þ">>

\* str.upper() of the letters it does not map one to one: the sharp s
\* becomes two letters, the micro sign the Greek capital mu
UpperSpecial == { <<"ß", <<"S", "S">>>>, <<"µ", <<"Μ">>>> }

\* the characters str.upper() and str.lower() both leave as they are
Uncased ==
    {"","","","","","","","","\t","\n","","\f","\r","",
     "","","","","","","","","","","","","","",
     "","",""," ","!","\"","#","$","%","&","'","(",")","*",
     "+",",","-",".","/","0","1","2","3","4","5","6","7","8",
     "9",":",";","<","=",">","?","@","[","\\","]","^","_","{",
     "|","}","~","","","","","","","","","","","",
     "","","","","","","","","","","","","","",
     "","","","","","","",""," ","¡","¢","£","¤","¥",
     "¦","§","¨","©","ª","«","¬","­","®","¯","°","±","²","³",
     "´","¶","·","¸","¹","º","»","¼","½","¾","¿","×","÷"}

\* the cased letters beside those above
MuSmall == "μ"
MuCapital == "Μ"
YDiaeresis == "ÿ"

\* str.upper(), character by character
UpperMap ==
    [c \in Uncased \cup {LowerLetters[i] : i \in 1..Len(LowerLetters)}
                   \cup {UpperLetters[i] : i \in 1..Len(UpperLetters)}
                   \cup {e[1] : e \in UpperSpecial}
                   \cup {MuSmall, MuCapital} |->
        IF \E e \in UpperSpecial : e[1] = c
        THEN (CHOOSE e \in UpperSpecial : e[1] = c)[2]
        ELSE IF \E i \in 1..Len(LowerLetters) : LowerLetters[i] = c
        THEN <<UpperLetters[CHOOSE i \in 1..Len(LowerLetters) : LowerLetters[i] = c]>>
        ELSE IF c = MuSmall THEN <<MuCapital>>
        ELSE <<c>>]
\* str.lower(), character by character
LowerMap ==
    [c \in Uncased \cup {LowerLetters[i] : i \in 1..Len(LowerLetters)}
                   \cup {UpperLetters[i] : i \in 1..Len(UpperLetters)}
                   \cup {e[1] : e \in UpperSpecial}
                   \cup {MuSmall, MuCapital, YDiaeresis} |->
        IF \E i \in 1..Len(UpperLetters) : UpperLetters[i] = c
        THEN <<LowerLetters[CHOOSE i \in 1..Len(UpperLetters) : UpperLetters[i] = c]>>
        ELSE IF c = MuCapital THEN <<MuSmall>>
        ELSE <<c>>]

\* str.upper() / str.lower() of one character: a text of one or two
UpperChar(c) == UpperMap[c]
LowerChar(c) == LowerMap[c]

RECURSIVE Upper(_)
Upper(s) == IF s = <<>> THEN <<>> ELSE UpperChar(s[1]) \o Upper(Tail(s))
RECURSIVE Lower(_)
Lower(s) == IF s = <<>> THEN <<>> ELSE LowerChar(s[1]) \o Lower(Tail(s))

\* str.isspace() of one character
Whitespace ==
    {" ", "\t", "\n", "\r", "\f", "", "", "", "", "", "", " "}

\* ------------------------------------------------- difflib.SequenceMatcher
\* scraper.py:72 uses SequenceMatcher(None, a, b).ratio(): no junk function,
\* autojunk on.  find_longest_match finds the longest common block of
\* characters indexed for b, earliest in a and then earliest in b, widens it
\* by the equal characters on either side, and get_matching_blocks recurses
\* on the pieces left and right of it; ratio = 2*M/T.

\* __chain_b: with 200 or more characters in b, those that fill more than
\* 1% of it (plus one) are popular and left out of the index of b
Popular(b) ==
    IF Len(b) < 200 THEN {}
    ELSE {b[j] : j \in {j \in 1..Len(b) :
              Cardinality({k \in 1..Len(b) : b[k] = b[j]}) > (Len(b) \div 100) + 1}}

RECURSIVE RunLen(_, _, _, _, _, _, _)
\* length of the common run of a[i..ahi] and b[j..bhi] starting at i, j, of
\* characters other than those of skip
RunLen(a, b, i, j, ahi, bhi, skip) ==
    IF i > ahi \/ j > bhi \/ a[i] # b[j] \/ b[j] \in skip THEN 0
    ELSE 1 + RunLen(a, b, i + 1, j + 1, ahi, bhi, skip)

RECURSIVE BackLen(_, _, _, _, _, _)
\* length of the common run of a and b ending at i, j, not below alo, blo
BackLen(a, b, i, j, alo, blo) ==
    IF i < alo \/ j < blo \/ a[i] # b[j] THEN 0
    ELSE 1 + BackLen(a, b, i - 1, j - 1, alo, blo)

\* find_longest_match(alo, ahi, blo, bhi), bounds inclusive and 1-based
LongestMatch(a, b, alo, ahi, blo, bhi, popular) ==
    LET Pos == (alo..ahi) \X (blo..bhi)
        K(p) == RunLen(a, b, p[1], p[2], ahi, bhi, popular)
        Better(p, q) == \/ K(p) > K(q)
                        \/ K(p) = K(q) /\ p[1] < q[1]
                        \/ K(p) = K(q) /\ p[1] = q[1] /\ p[2] < q[2]
        best == IF \E p \in Pos : K(p) > 0
                THEN CHOOSE p \in Pos : \A q \in Pos \ {p} : Better(p, q)
                ELSE <<alo, blo>>
        size == K(best)
        back == IF popular = {} THEN 0
                ELSE BackLen(a, b, best[1] - 1, best[2] - 1, alo, blo)
        fore == IF popular = {} THEN 0
                ELSE RunLen(a, b, best[1] + size, best[2] + size, ahi, bhi, {})
    IN  [i |-> best[1] - back, j |-> best[2] - back, k |-> back + size + fore]

RECURSIVE Matches(_, _, _, _, _, _, _)
\* sum of the sizes of get_matching_blocks() within a[alo..ahi], b[blo..bhi]
Matches(a, b, alo, ahi, blo, bhi, popular) ==
    IF alo > ahi \/ blo > bhi THEN 0
    ELSE LET m == LongestMatch(a, b, alo, ahi, blo, bhi, popular)
         IN  IF m.k = 0 THEN 0
             ELSE m.k + Matches(a, b, alo, m.i - 1, blo, m.j - 1, popular)
                      + Matches(a, b, m.i + m.k, ahi, m.j + m.k, bhi, popular)

\* A ratio is a fraction [num, den], den > 0: the float 2.0*M/T is the
\* correctly rounded quotient, so floats compare as the fractions do.
Frac(n, d) == [num |-> n, den |-> d]
FracGT(x, y) == x.num * y.den > y.num * x.den
FracEQ(x, y) == x.num * y.den = y.num * x.den

\* SequenceMatcher.ratio(): 1.0 when both strings are empty
Ratio(a, b) ==
    IF Len(a) + Len(b) = 0 THEN Frac(1, 1)
    ELSE Frac(2 * Matches(a, b, 1, Len(a), 1, Len(b), Popular(b)),
              Len(a) + Len(b))


\* ------------------------------------------------------------ city names

\* CITY_MAPPING: <<key, value>> pairs
CITY_MAPPING ==
    { <<<<"T","A","N","A">>,
        <<"A","n","t","a","n","a","n","a","r","i","v","o">>>>,
      <<<<"A","N","T","S","I","R","A","B","E">>,
        <<"A","n","t","s","i","r","a","b","e">>>>,
      <<<<"F","I","A","N","A","R","A","N","T","S","O","A">>,
        <<"F","i","a","n","a","r","a","n","t","s","o","a">>>>,
      <<<<"T","A","M","A","T","A","V","E">>,
        <<"T","o","a","m","a","s","i","n","a">>>>,
      <<<<"D","I","E","G","O">>,
        <<"A","n","t","s","i","r","a","n","a","n","a">>>>,
      <<<<"T","U","L","E","A","R">>,
        <<"T","o","l","i","a","r","a">>>>,
      <<<<"M","A","J","U","N","G","A">>,
        <<"M","a","h","a","j","a","n","g","a">>>> }

\* _map_city_name: CITY_MAPPING.get(scraped_city.upper(), scraped_city)
MapCityName(scraped_city) ==
    LET key == Upper(scraped_city)
    IN  IF \E e \in CITY_MAPPING : e[1] = key
        THEN (CHOOSE e \in CITY_MAPPING : e[1] = key)[2]
        ELSE scraped_city

Antananarivo == <<"A","n","t","a","n","a","n","a","r","i","v","o">>
Antsirabe == <<"A","n","t","s","i","r","a","b","e">>

\* ---------------------------------------------------------------- matcher

\* SIMILARITY_THRESHOLD = 0.4
SIMILARITY_THRESHOLD == Frac(2, 5)

\* SELECT p.id, p.name FROM pharmacies p JOIN cities c ON p.city_id = c.id
\* WHERE c.name = ?  -- rows in table (id) order; '=' is case-sensitive
CityPharmacies(reg, db_city) ==
    LET InCity(p) == \E i \in 1..Len(reg.cities) :
                        /\ reg.cities[i].id = p.city_id
                        /\ reg.cities[i].name = db_city
    IN  SelectSeq(reg.pharmacies, InCity)

\* scraper.py:73  if ratio > best_ratio
Improves_ge(ratio, best_ratio) == ~FracGT(best_ratio, ratio)
Improves(ratio, best_ratio) == FracGT(ratio, best_ratio)

\* scraper.py:78  if best_ratio > SIMILARITY_THRESHOLD
Accepts_ge(best_ratio, threshold) == ~FracGT(threshold, best_ratio)
Accepts_below(best_ratio, threshold) == FracGT(threshold, best_ratio)
Accepts(best_ratio, threshold) == FracGT(best_ratio, threshold)

RECURSIVE BestMatch(_, _, _, _)
\* the loop of scraper.py:68-75 from candidate i on; best = [ratio, match]
BestMatch(pharmacy_name, pharmacies, i, best) ==
    IF i > Len(pharmacies) THEN best
    ELSE LET ratio == Ratio(Lower(pharmacy_name), Lower(pharmacies[i].name))
         IN  BestMatch(pharmacy_name, pharmacies, i + 1,
                 IF Improves(ratio, best.ratio)
                 THEN [ratio |-> ratio, match |-> pharmacies[i].id]
                 ELSE best)

\* _find_pharmacy_match, the threshold a parameter
FindPharmacyMatchAt(pharmacy_name, city, reg, threshold) ==
    LET pharmacies == CityPharmacies(reg, MapCityName(city))
        best == BestMatch(pharmacy_name, pharmacies, 1,
                          [ratio |-> Frac(0, 1), match |-> NoId])
    IN  IF pharmacies = <<>> THEN NoId
        ELSE IF Accepts(best.ratio, threshold) THEN best.match
        ELSE NoId

\* _find_pharmacy_match(pharmacy_name, city) against the registry reg
FindPharmacyMatch(pharmacy_name, city, reg) ==
    FindPharmacyMatchAt(pharmacy_name, city, reg, SIMILARITY_THRESHOLD)

\* ------------------------------------------------------------------ dates

IsLeap(y) == (y % 4 = 0 /\ y % 100 # 0) \/ y % 400 = 0

DaysIn(m, y) ==
    IF m = 2 THEN (IF IsLeap(y) THEN 29 ELSE 28)
    ELSE IF m \in {4, 6, 9, 11} THEN 30 ELSE 31

\* strptime(text, '%d/%m/%Y') accepts the groups dmy = <<dd, mm, yyyy>>
ValidDMY(dmy) ==
    /\ dmy[3] >= 1
    /\ dmy[2] \in 1..12
    /\ dmy[1] \in 1..DaysIn(dmy[2], dmy[3])

\* strftime('%Y-%m-%d'): the ISO text, as <<yyyy, mm, dd>>
ToISO(dmy) == <<dmy[3], dmy[2], dmy[1]>>

\* The ISO text is kept as <<yyyy, mm, dd>>.  strftime('%Y') writes the year
\* without leading zeros and strptime('%Y') reads exactly four digits, so the
\* text of a year below 1000 does not parse back (main.py:47, ValueError).
YearDigits(y) ==
    IF y >= 1000 THEN 4 ELSE IF y >= 100 THEN 3 ELSE IF y >= 10 THEN 2 ELSE 1
ParsesISO(text) == YearDigits(text[1]) = 4

\* date order (the order of datetime.date values parsed from ISO text)
DateGT(x, y) ==
    \/ x[1] > y[1]
    \/ x[1] = y[1] /\ x[2] > y[2]
    \/ x[1] = y[1] /\ x[2] = y[2] /\ x[3] > y[3]

NextDay(d) ==
    IF d[3] < DaysIn(d[2], d[1]) THEN <<d[1], d[2], d[3] + 1>>
    ELSE IF d[2] < 12 THEN <<d[1], d[2] + 1, 1>>
    ELSE <<d[1] + 1, 1, 1>>

RECURSIVE DayAfter(_, _)
DayAfter(d, n) == IF n = 0 THEN d ELSE DayAfter(NextDay(d), n - 1)

\* _extract_date_range(title).  A title either holds the pattern
\* dd/mm/yyyy au dd/mm/yyyy (match, with the groups s and e as
\* <<dd, mm, yyyy>>) or does not.  Result: <<start_date, end_date>>.
Title(s, e) == [match |-> TRUE, s |-> s, e |-> e]
NoMatch == [match |-> FALSE, s |-> <<0, 0, 0>>, e |-> <<0, 0, 0>>]
ExtractDateRange(title) ==
    IF ~title.match THEN <<NoDate, NoDate>>
    ELSE IF ValidDMY(title.s) /\ ValidDMY(title.e)
         THEN <<ToISO(title.s), ToISO(title.e)>>
         ELSE <<NoDate, NoDate>>

\* Python truthiness of a str-or-None argument: None and '' are both false
Truthy(x) == x # NoDate

\* ------------------------------------------------------- the page, parsed
\* A page is its title and its <table> elements in document order; a table is
\* its id and its <tbody>, if any (a sequence of no or one sequence of rows);
\* a row is the number of its <td> cells, the text of the <b> of the first
\* cell, if any, and the text of the second cell.

Listing(name, city) == [name |-> name, city |-> city]

RECURSIVE LStrip(_)
LStrip(s) == IF s # <<>> /\ s[1] \in Whitespace THEN LStrip(Tail(s)) ELSE s

RECURSIVE RStrip(_)
RStrip(s) ==
    IF s # <<>> /\ s[Len(s)] \in Whitespace
    THEN RStrip(SubSeq(s, 1, Len(s) - 1)) ELSE s

\* str.strip()
Strip(s) == RStrip(LStrip(s))

\* " - " occurs in s at position i
SepAt(s, i) ==
    i + 2 <= Len(s) /\ s[i] = " " /\ s[i + 1] = "-" /\ s[i + 2] = " "

\* scraper.py:170-172: the city token of an address
CityToken(address) ==
    IF \E i \in 1..Len(address) : SepAt(address, i)
    THEN LET first == CHOOSE i \in 1..Len(address) :
                          /\ SepAt(address, i)
                          /\ \A j \in 1..(i - 1) : ~SepAt(address, j)
         IN  Strip(SubSeq(address, 1, first - 1))
    ELSE <<>>

\* _parse_pharmacy_row(row): no listing (None) or the one listing of the row
ParsePharmacyRow(row) ==
    IF row.cells < 3 THEN <<>>
    ELSE LET pharmacy_name == IF row.bold = <<>> THEN <<>> ELSE Strip(row.bold[1])
             address == Strip(row.address)
         IN  << Listing(pharmacy_name, CityToken(address)) >>

RECURSIVE ParseRows(_, _)
\* the loop of scraper.py:211-214 from row i on
ParseRows(rows, i) ==
    IF i > Len(rows) THEN <<>>
    ELSE ParsePharmacyRow(rows[i]) \o ParseRows(rows, i + 1)

ResultsTableId == "datatable-buttons"

\* soup.find('table', {'id': 'datatable-buttons'}): the first such table
FindTable_any(tables) == IF tables = <<>> THEN <<>> ELSE <<tables[1]>>
FindTable(tables) ==
    LET IsResults(t) == t.id = ResultsTableId
        found == SelectSeq(tables, IsResults)
    IN  IF found = <<>> THEN <<>> ELSE <<found[1]>>

\* scrape_pharmacies, lines 203-214: the listings of a page
ScrapeListings(page) ==
    LET found == FindTable(page.tables)
    IN  IF found = <<>> THEN <<>>
        ELSE IF found[1].tbody = <<>> THEN <<>>
        ELSE ParseRows(found[1].tbody[1], 1)

\* ------------------------------------------------- on_duty_pharmacies table
\* The table is the sequence of its rows in id order; ids are AUTOINCREMENT
\* and no row is ever deleted, so row i has id i.

\* SELECT id FROM on_duty_pharmacies ORDER BY id LIMIT 1
SelectFirstId_last(t) == IF t = <<>> THEN NoId ELSE t[Len(t)].id
SelectFirstId(t) == IF t = <<>> THEN NoId ELSE t[1].id

\* SELECT ... FROM on_duty_pharmacies ORDER BY id DESC LIMIT 1
SelectLatest(t) == IF t = <<>> THEN <<>> ELSE <<t[Len(t)]>>

\* UPDATE on_duty_pharmacies SET start_date, end_date, pharmacy_ids,
\* updated_at = CURRENT_TIMESTAMP WHERE id = ?
UpdateRow_period_only(t, id, start_date, end_date, pharmacy_ids, now) ==
    [i \in 1..Len(t) |->
        IF t[i].id = id
        THEN [t[i] EXCEPT !.start_date = start_date, !.end_date = end_date,
                          !.updated_at = now]
        ELSE t[i]]
UpdateRow(t, id, start_date, end_date, pharmacy_ids, now) ==
    [i \in 1..Len(t) |->
        IF t[i].id = id
        THEN [t[i] EXCEPT !.start_date = start_date, !.end_date = end_date,
                          !.pharmacy_ids = pharmacy_ids, !.updated_at = now]
        ELSE t[i]]

\* INSERT INTO on_duty_pharmacies (start_date, end_date, pharmacy_ids)
InsertRow(t, start_date, end_date, pharmacy_ids, now) ==
    Append(t, [id |-> Len(t) + 1, start_date |-> start_date,
               end_date |-> end_date, pharmacy_ids |-> pharmacy_ids,
               created_at |-> now, updated_at |-> now])

\* the statement _update_on_duty_pharmacies executes, given what its SELECT saw
UpsertStatement_insert(t, existing_record, start_date, end_date, pharmacy_ids, now) ==
    InsertRow(t, start_date, end_date, pharmacy_ids, now)
UpsertStatement(t, existing_record, start_date, end_date, pharmacy_ids, now) ==
    IF existing_record # NoId
    THEN UpdateRow(t, existing_record, start_date, end_date, pharmacy_ids, now)
    ELSE InsertRow(t, start_date, end_date, pharmacy_ids, now)

\* _update_on_duty_pharmacies run without interruption
UpdateOnDuty(t, start_date, end_date, pharmacy_ids, now) ==
    UpsertStatement(t, SelectFirstId(t), start_date, end_date, pharmacy_ids, now)

\* -------------------------------------------------- process_scraped_pharmacies

\* scraper.py:122  if pharmacy_name and city
Matchable_named(pharmacy) == pharmacy.name # <<>>
Matchable(pharmacy) == pharmacy.name # <<>> /\ pharmacy.city # <<>>

\* the listings the loop of scraper.py:118-125 hands to _find_pharmacy_match
MatcherCalls(pharmacies) == SelectSeq(pharmacies, Matchable)

\* one pass of the loop of scraper.py:118-125: what it appends to
\* matched_pharmacy_ids, the registry being reg when its SELECT runs
LoopPass(pharmacy, reg) ==
    LET pharmacy_id == IF Matchable(pharmacy)
                       THEN FindPharmacyMatch(pharmacy.name, pharmacy.city, reg)
                       ELSE NoId
    IN  IF pharmacy_id # NoId THEN <<pharmacy_id>> ELSE <<>>

RECURSIVE MatchAll(_, _, _)
\* the loop from listing i on, the registry staying reg: matched_pharmacy_ids
MatchAll(pharmacies, reg, i) ==
    IF i > Len(pharmacies) THEN <<>>
    ELSE LoopPass(pharmacies[i], reg) \o MatchAll(pharmacies, reg, i + 1)

\* scraper.py:127  if start_date and end_date
PeriodPresent_either(start_date, end_date) == Truthy(start_date) \/ Truthy(end_date)
PeriodPresent(start_date, end_date) == Truthy(start_date) /\ Truthy(end_date)

\* ------------------------------------------------- convert_json_to_sqlite
\* A dataset is a sequence of [city, pharmacies], pharmacies a sequence of
\* names.  The registry is [cities, pharmacies, city_seq]: the two tables in
\* id order and the AUTOINCREMENT sequence of cities (database.py:13), the
\* highest id an INSERT into cities has been given so far.

EmptyRegistry == [cities |-> <<>>, pharmacies |-> <<>>, city_seq |-> 0]

RECURSIVE InsertPharmacies(_, _, _, _)
\* dataset_converter.py:46-86 from pharmacy i on: a name that is empty once
\* stripped is skipped, every other is inserted under a new id
InsertPharmacies(rows, city_id, names, i) ==
    IF i > Len(names) THEN rows
    ELSE LET name == Strip(names[i])
         IN  InsertPharmacies(
                 IF name = <<>> THEN rows
                 ELSE Append(rows, [id |-> Len(rows) + 1, city_id |-> city_id,
                                    name |-> name]),
                 city_id, names, i + 1)

RECURSIVE ConvertJsonToSqlite(_, _, _)
\* dataset_converter.py:30-86 from city i on: INSERT OR IGNORE the city,
\* SELECT its id, insert its pharmacies.  The INSERT takes the next id of the
\* sequence before the UNIQUE constraint on the name is looked at: an ignored
\* INSERT adds no row and still uses up an id.
ConvertJsonToSqlite(reg, data, i) ==
    IF i > Len(data) THEN reg
    ELSE LET city_name == Strip(data[i].city)
             Known(c) == c.name = city_name
             next_id == reg.city_seq + 1
             cities == IF SelectSeq(reg.cities, Known) # <<>> THEN reg.cities
                       ELSE Append(reg.cities,
                                   [id |-> next_id, name |-> city_name])
             city_id == SelectSeq(cities, Known)[1].id
         IN  IF city_name = <<>> THEN ConvertJsonToSqlite(reg, data, i + 1)
             ELSE ConvertJsonToSqlite(
                      [cities |-> cities,
                       pharmacies |-> InsertPharmacies(reg.pharmacies, city_id,
                                                       data[i].pharmacies, 1),
                       city_seq |-> next_id],
                      data, i + 1)

\* ================================================================== state

VARIABLES
    registry,   \* cities and pharmacies tables (database.py:11-32)
    loads,      \* runs of convert_json_to_sqlite so far
    table,      \* committed rows of on_duty_pharmacies (database.py:34-43)
    elapsed,    \* days since FirstDay: date.today() and CURRENT_TIMESTAMP
    cronDay,    \* the day the daily job last fired, -1 before the first
    pc,         \* where each invocation of check_and_update_on_duty stands
    served,     \* per invocation: the page its request was answered with, if any
    scraped,    \* per invocation: what scrape_pharmacies returned
    cursor,     \* per invocation: the listing the matching loop is at
    asked,      \* per invocation: the listings handed to _find_pharmacy_match
    matched,    \* per invocation: matched_pharmacy_ids
    existing,   \* per invocation: existing_record of _update_on_duty_pharmacies
    pending,    \* per invocation: the table of its open write transaction
    wlock,      \* the connection holding SQLite's write lock, or "free"
    outcome,    \* per invocation: how check_and_update_on_duty ended
    failed,     \* per invocation: "none", "fetch" or "storage"
    fetches,    \* per invocation: calls of requests.get
    writes,     \* per invocation: UPDATE/INSERT statements executed
    issued,     \* the <<period, ids, timestamp>> the reconciliations wrote,
                \* as long as a row carries them
    seen,       \* the row the last /on-duty request read, if any
    mName, mCity, mReg,   \* the arguments and the registry of the matcher calls
    mPharmacies,          \* pharmacies, the rows the call in hand fetched
    mPos,                 \* the candidate its loop is at, 0 with no call in hand
    mBest,                \* its locals best_ratio and best_match
    mResult,              \* the results of the successive calls
    mAt,                  \* <<threshold, result>> of the call at other thresholds
    iListings, iStart, iEnd,   \* the arguments of process_scraped_pharmacies
    iCalls, iTable0, iObs1     \* calls made, the roster before, and what the
                               \* first call left

\* what an invocation works on between its fetch and its return
work == <<served, scraped, cursor, asked, matched, existing, pending>>
ctl == <<cronDay, pc, work, wlock, outcome, failed, fetches, writes, issued, seen>>
mvars == <<mName, mCity, mReg, mPharmacies, mPos, mBest, mResult, mAt>>
ivars == <<iListings, iStart, iEnd, iCalls, iTable0, iObs1>>
vars == <<registry, loads, table, elapsed, ctl, mvars, ivars>>

\* ------------------------------------------------------------------ bounds

MaxDays == 1        \* days the clock advances
MaxNameLen == 2     \* length of a raw name given to the matcher
MaxPharm == 2       \* pharmacies in a registry given to the matcher
MaxListings == 2    \* raw listings of one ingest
MaxCalls == 2       \* successive calls of one operation on the same arguments
MaxLoads == 1       \* runs of convert_json_to_sqlite
HealDay == 1        \* the day from which the remote site and the storage work

\* ------------------------------------------------------------------- data

TANA == <<"T","A","N","A">>
tana == <<"t","a","n","a">>
Nosy == <<"N","o","s","y">>

FirstDay == <<2025, 1, 31>>
Today == DayAfter(FirstDay, elapsed)

\* dataset.json: a pharmacy without a name, a city named a second time (with
\* blanks around the name) before a new one, and a city without a name
Dataset0 ==
    << [city |-> Antananarivo, pharmacies |-> << <<"A","b">>, <<" ">> >>],
       [city |-> <<" ">> \o Antananarivo \o <<"\n">>,
        pharmacies |-> << <<"\t","b","b","a">> >>],
       [city |-> <<" ">> \o Antsirabe, pharmacies |-> << <<"a","b">> >>],
       [city |-> <<>>, pharmacies |-> << <<"a","b">> >>] >>

\* the registry after one run of the converter on Dataset0
Registry0 ==
    [cities |-> << [id |-> 1, name |-> Antananarivo],
                   [id |-> 3, name |-> Antsirabe] >>,
     pharmacies |-> << [id |-> 1, city_id |-> 1, name |-> <<"A","b">>],
                       [id |-> 2, city_id |-> 1, name |-> <<"b","b","a">>],
                       [id |-> 3, city_id |-> 3, name |-> <<"a","b">>] >>,
     city_seq |-> 3]

\* a row of three cells: the name in bold, and the address "<city> - <rest>"
Row(name, city) ==
    [cells |-> 3, bold |-> <<name>>, address |-> city \o <<" ", "-", " ", "x">>]
ResultsTable(rows) == [id |-> ResultsTableId, tbody |-> <<rows>>]

\* what the remote site may serve
PageJan ==
    [title |-> Title(<<27, 1, 2025>>, <<31, 1, 2025>>),
     tables |-> << ResultsTable(<< Row(<<"a","b">>, TANA) >>) >>]
\* besides two well-formed rows, one of them with line breaks and tabs around
\* its texts: a row of two cells, a row whose address has no " - ", and a row
\* without a name in bold
PageFeb ==
    [title |-> Title(<<1, 2, 2025>>, <<7, 2, 2025>>),
     tables |-> << ResultsTable(<<
         Row(<<"a","b">>, Antsirabe),
         [cells |-> 2, bold |-> << <<"a","b">> >>, address |-> TANA \o <<" ", "-", " ", "x">>],
         [cells |-> 3, bold |-> << <<"a","b">> >>, address |-> TANA \o <<" ", "-">>],
         Row(<<"\n"," ","b","b","A","\t">>, <<"\n">> \o tana \o <<"\t">>),
         [cells |-> 3, bold |-> <<>>, address |-> TANA \o <<" ", "-", " ", "x">>] >>) >>]
PageBadDate ==
    [title |-> Title(<<31, 2, 2025>>, <<7, 3, 2025>>),
     tables |-> << ResultsTable(<< Row(<<"a","b">>, TANA) >>) >>]
PageOldYear ==
    [title |-> Title(<<1, 1, 999>>, <<2, 1, 999>>),
     tables |-> <<>>]
\* a valid period, and no table with the id of the results table
PageNoTable ==
    [title |-> Title(<<1, 2, 2025>>, <<7, 2, 2025>>),
     tables |-> << [id |-> "menu", tbody |-> << << Row(<<"a","b">>, TANA) >> >>] >>]
Pages == {PageJan, PageFeb, PageBadDate, PageOldYear, PageNoTable}

Procs == {"startup", "cron"}

NoScrape == [pharmacies |-> <<>>, start_date |-> NoDate, end_date |-> NoDate]

\* ======================================================= the control loop
\* check_and_update_on_duty takes no lock and opens no transaction that spans
\* its read of the end date and the roster write; every SQL statement runs on
\* a connection of its own.  An invocation is therefore a sequence of steps,
\* one per blocking call or SQL statement, and the steps of two invocations
\* that overlap (the startup call and the daily job of processes sharing
\* pharmacies.db) interleave freely, with each other and with a run of the
\* dataset converter on the same file.

\* the period, identifiers and timestamp of a row, as one reconciliation
\* writes them
Written(row) ==
    [start_date |-> row.start_date, end_date |-> row.end_date,
     pharmacy_ids |-> row.pharmacy_ids, at |-> row.updated_at]

\* the writes of ws whose values a committed row, the row a reader was given
\* or a row of an open transaction still carries: no other can be read again
StillHeld(ws, t, s, pend) ==
    {w \in ws :
        \/ \E i \in 1..Len(t) : Written(t[i]) = w
        \/ s # <<>> /\ Written(s[1]) = w
        \/ \E p \in DOMAIN pend : \E i \in 1..Len(pend[p]) : Written(pend[p][i]) = w}

\* main.py:50  if today > end_date
Expired(today, end_date) == DateGT(today, end_date)

\* main.py:62  except Exception: what becomes of an exception raised inside
CheckExcept(exc) == "caught"

Begin(p) ==
    /\ pc' = [pc EXCEPT ![p] = "check"]
    /\ outcome' = [outcome EXCEPT ![p] = "running"]
    /\ failed' = [failed EXCEPT ![p] = "none"]
    /\ fetches' = [fetches EXCEPT ![p] = 0]
    /\ writes' = [writes EXCEPT ![p] = 0]

\* what an invocation leaves behind when it returns
Return(p, how) ==
    /\ pc' = [pc EXCEPT ![p] = "done"]
    /\ outcome' = [outcome EXCEPT ![p] = how]
    /\ served' = [served EXCEPT ![p] = <<>>]
    /\ scraped' = [scraped EXCEPT ![p] = NoScrape]
    /\ cursor' = [cursor EXCEPT ![p] = 1]
    /\ asked' = [asked EXCEPT ![p] = <<>>]
    /\ matched' = [matched EXCEPT ![p] = <<>>]
    /\ existing' = [existing EXCEPT ![p] = NoId]
    /\ pending' = [pending EXCEPT ![p] = <<>>]

\* a statement raising sqlite3.Error (database is locked, I/O error): the
\* connection is closed and the exception reaches main.py:62
StorageError(p) ==
    /\ failed' = [failed EXCEPT ![p] = "storage"]
    /\ Return(p, CheckExcept("sqlite3.Error"))

\* startup_event: await check_and_update_on_duty(), once
StartupEvent ==
    /\ pc["startup"] = "idle"
    /\ Begin("startup")
    /\ UNCHANGED <<registry, loads, table, elapsed, cronDay, work, wlock,
                   issued, seen, mvars, ivars>>

\* the job of CronTrigger(hour=6, minute=0): at most once a day, and not
\* while its previous run is still going
CronFire ==
    /\ pc["cron"] \in {"idle", "done"}
    /\ cronDay < elapsed
    /\ cronDay' = elapsed
    /\ Begin("cron")
    /\ UNCHANGED <<registry, loads, table, elapsed, work, wlock, issued, seen,
                   mvars, ivars>>

\* check_and_update_on_duty, lines 36-58: read the end date, parse it, decide
Check(p) ==
    /\ pc[p] = "check"
    /\ LET result == SelectLatest(table)
       IN  IF result # <<>> /\ ~ParsesISO(result[1].end_date)
           THEN Return(p, CheckExcept("ValueError"))
           ELSE IF result # <<>> /\ ~Expired(Today, result[1].end_date)
           THEN Return(p, "valid")
           ELSE /\ pc' = [pc EXCEPT ![p] = "scrape"]
                /\ UNCHANGED <<outcome, work>>
    /\ UNCHANGED <<registry, loads, table, elapsed, cronDay, wlock, failed,
                   fetches, writes, issued, seen, mvars, ivars>>

\* main.py:38-45: the SELECT of the end date raising sqlite3.Error
CheckFails(p) ==
    /\ pc[p] = "check"
    /\ StorageError(p)
    /\ UNCHANGED <<registry, loads, table, elapsed, cronDay, wlock, fetches,
                   writes, issued, seen, mvars, ivars>>

\* scrape_pharmacies, the request answered with a page
ScrapePage(p) ==
    /\ pc[p] = "scrape"
    /\ \E page \in Pages :
         LET period == ExtractDateRange(page.title)
         IN  /\ served' = [served EXCEPT ![p] = <<page>>]
             /\ scraped' = [scraped EXCEPT ![p] =
                    [pharmacies |-> ScrapeListings(page),
                     start_date |-> period[1], end_date |-> period[2]]]
    /\ fetches' = [fetches EXCEPT ![p] = @ + 1]
    /\ pc' = [pc EXCEPT ![p] = "process"]
    /\ UNCHANGED <<registry, loads, table, elapsed, cronDay, cursor, asked,
                   matched, existing, pending, wlock, outcome, failed, writes,
                   issued, seen, mvars, ivars>>

\* scrape_pharmacies, the request failing: return [], None, None
ScrapeFails_retry(p) ==
    /\ pc[p] = "scrape"
    /\ fetches' = [fetches EXCEPT ![p] = @ + 1]
    /\ failed' = [failed EXCEPT ![p] = "fetch"]
    /\ UNCHANGED <<registry, loads, table, elapsed, cronDay, pc, work, wlock,
                   outcome, writes, issued, seen, mvars, ivars>>
ScrapeFails(p) ==
    /\ pc[p] = "scrape"
    /\ scraped' = [scraped EXCEPT ![p] = NoScrape]
    /\ fetches' = [fetches EXCEPT ![p] = @ + 1]
    /\ failed' = [failed EXCEPT ![p] = "fetch"]
    /\ pc' = [pc EXCEPT ![p] = "process"]
    /\ UNCHANGED <<registry, loads, table, elapsed, cronDay, served, cursor,
                   asked, matched, existing, pending, wlock, outcome, writes,
                   issued, seen, mvars, ivars>>

\* the matching loop has listings left
InLoop(p) == pc[p] = "process" /\ cursor[p] <= Len(scraped[p].pharmacies)

\* one pass of the loop that gives up the rest of the listings when the
\* matcher returns None
Match_abort(p) ==
    /\ InLoop(p)
    /\ LET pharmacy == scraped[p].pharmacies[cursor[p]]
           ids == LoopPass(pharmacy, registry)
       IN  /\ matched' = [matched EXCEPT ![p] = @ \o ids]
           /\ asked' = [asked EXCEPT ![p] =
                  IF Matchable(pharmacy) THEN Append(@, pharmacy) ELSE @]
           /\ cursor' = [cursor EXCEPT ![p] =
                  IF Matchable(pharmacy) /\ ids = <<>>
                  THEN Len(scraped[p].pharmacies) + 1 ELSE @ + 1]
    /\ UNCHANGED <<registry, loads, table, elapsed, cronDay, pc, served, scraped,
                   existing, pending, wlock, outcome, failed, fetches, writes,
                   issued, seen, mvars, ivars>>

\* one pass of the loop that also drops the listing's pharmacy from the
\* registry once it is matched
Match_prune(p) ==
    /\ InLoop(p)
    /\ LET pharmacy == scraped[p].pharmacies[cursor[p]]
           ids == LoopPass(pharmacy, registry)
           Kept(r) == \A k \in 1..Len(ids) : ids[k] # r.id
       IN  /\ matched' = [matched EXCEPT ![p] = @ \o ids]
           /\ asked' = [asked EXCEPT ![p] =
                  IF Matchable(pharmacy) THEN Append(@, pharmacy) ELSE @]
           /\ registry' = [registry EXCEPT !.pharmacies = SelectSeq(@, Kept)]
    /\ cursor' = [cursor EXCEPT ![p] = @ + 1]
    /\ UNCHANGED <<loads, table, elapsed, cronDay, pc, served, scraped,
                   existing, pending, wlock, outcome, failed, fetches, writes,
                   issued, seen, mvars, ivars>>

\* process_scraped_pharmacies, lines 118-125: one pass of the loop, with the
\* SELECT of _find_pharmacy_match if the listing has a name and a city
Match(p) ==
    /\ InLoop(p)
    /\ LET pharmacy == scraped[p].pharmacies[cursor[p]]
       IN  /\ matched' = [matched EXCEPT ![p] = @ \o LoopPass(pharmacy, registry)]
           /\ asked' = [asked EXCEPT ![p] =
                  IF Matchable(pharmacy) THEN Append(@, pharmacy) ELSE @]
    /\ cursor' = [cursor EXCEPT ![p] = @ + 1]
    /\ UNCHANGED <<registry, loads, table, elapsed, cronDay, pc, served, scraped,
                   existing, pending, wlock, outcome, failed, fetches, writes,
                   issued, seen, mvars, ivars>>

\* scraper.py:55-60: the SELECT of _find_pharmacy_match raising sqlite3.Error
MatchFails(p) ==
    /\ InLoop(p)
    /\ Matchable(scraped[p].pharmacies[cursor[p]])
    /\ StorageError(p)
    /\ UNCHANGED <<registry, loads, table, elapsed, cronDay, wlock, fetches,
                   writes, issued, seen, mvars, ivars>>

\* process_scraped_pharmacies, lines 127-133: after the loop, the period test
Process(p) ==
    /\ pc[p] = "process"
    /\ ~InLoop(p)
    /\ IF PeriodPresent(scraped[p].start_date, scraped[p].end_date)
       THEN /\ pc' = [pc EXCEPT ![p] = "select"]
            /\ UNCHANGED <<outcome, work>>
       ELSE Return(p, "completed")
    /\ UNCHANGED <<registry, loads, table, elapsed, cronDay, wlock, failed,
                   fetches, writes, issued, seen, mvars, ivars>>

\* _update_on_duty_pharmacies, lines 91-92: the SELECT
Select(p) ==
    /\ pc[p] = "select"
    /\ existing' = [existing EXCEPT ![p] = SelectFirstId(table)]
    /\ pc' = [pc EXCEPT ![p] = "execute"]
    /\ UNCHANGED <<registry, loads, table, elapsed, cronDay, served, scraped,
                   cursor, asked, matched, pending, wlock, outcome, failed,
                   fetches, writes, issued, seen, mvars, ivars>>

\* the SELECT raising sqlite3.Error
SelectFails(p) ==
    /\ pc[p] = "select"
    /\ StorageError(p)
    /\ UNCHANGED <<registry, loads, table, elapsed, cronDay, wlock, fetches,
                   writes, issued, seen, mvars, ivars>>

\* _update_on_duty_pharmacies, lines 96-108: the UPDATE or INSERT opens a
\* write transaction; other connections keep reading the committed table
Execute(p) ==
    /\ pc[p] = "execute"
    /\ wlock = "free"
    /\ wlock' = p
    /\ pending' = [pending EXCEPT ![p] =
           UpsertStatement(table, existing[p], scraped[p].start_date,
                           scraped[p].end_date, matched[p], elapsed)]
    /\ writes' = [writes EXCEPT ![p] = @ + 1]
    /\ pc' = [pc EXCEPT ![p] = "commit"]
    /\ UNCHANGED <<registry, loads, table, elapsed, cronDay, served, scraped,
                   cursor, asked, matched, existing, outcome, failed, fetches,
                   seen, mvars, ivars>>
    /\ issued' = StillHeld(
           issued \cup
               {[start_date |-> scraped[p].start_date,
                 end_date |-> scraped[p].end_date,
                 pharmacy_ids |-> matched[p], at |-> elapsed]},
           table', seen', pending')

\* the UPDATE or INSERT raising sqlite3.Error
ExecuteFails(p) ==
    /\ pc[p] = "execute"
    /\ StorageError(p)
    /\ UNCHANGED <<registry, loads, table, elapsed, cronDay, wlock, fetches,
                   writes, issued, seen, mvars, ivars>>

\* _update_on_duty_pharmacies, line 110: conn.commit()
Commit(p) ==
    /\ pc[p] = "commit"
    /\ table' = pending[p]
    /\ wlock' = "free"
    /\ Return(p, "completed")
    /\ UNCHANGED <<registry, loads, elapsed, cronDay, failed, fetches, writes,
                   seen, mvars, ivars>>
    /\ issued' = StillHeld(issued, table', seen', pending')

\* commit raising sqlite3.Error: conn.close() rolls the transaction back
CommitFails_partial(p) ==
    /\ pc[p] = "commit"
    /\ table' = pending[p]
    /\ wlock' = "free"
    /\ StorageError(p)
    /\ UNCHANGED <<registry, loads, elapsed, cronDay, fetches, writes,
                   seen, mvars, ivars>>
    /\ issued' = StillHeld(issued, table', seen', pending')
CommitFails(p) ==
    /\ pc[p] = "commit"
    /\ wlock' = "free"
    /\ StorageError(p)
    /\ UNCHANGED <<registry, loads, table, elapsed, cronDay, fetches, writes,
                   seen, mvars, ivars>>
    /\ issued' = StillHeld(issued, table', seen', pending')

\* get_on_duty_pharmacies, lines 155-164: the row a reader is given
ReadOnDuty ==
    /\ seen' = SelectLatest(table)
    /\ seen' # seen
    /\ UNCHANGED <<registry, loads, table, elapsed, cronDay, pc, work, wlock,
                   outcome, failed, fetches, writes, mvars, ivars>>
    /\ issued' = StillHeld(issued, table', seen', pending')

\* convert_json_to_sqlite(dataset.json) run to its commit: one transaction,
\* which needs the write lock and shows other connections nothing before
\* the commit
ConvertJson ==
    /\ loads < MaxLoads
    /\ wlock = "free"
    /\ registry' = ConvertJsonToSqlite(registry, Dataset0, 1)
    /\ loads' = loads + 1
    /\ UNCHANGED <<table, elapsed, ctl, mvars, ivars>>

\* midnight
Tick ==
    /\ elapsed < MaxDays
    /\ elapsed' = elapsed + 1
    /\ UNCHANGED <<registry, loads, table, ctl, mvars, ivars>>

\* the variables of the other specifications, at rest
NoCallYet ==
    /\ mPharmacies = <<>> /\ mPos = 0
    /\ mBest = [ratio |-> Frac(0, 1), match |-> NoId]
    /\ mResult = <<>>
    /\ mAt = {}
MatcherIdle ==
    /\ mName = <<>> /\ mCity = <<>> /\ mReg = Registry0
    /\ NoCallYet
IngestIdle ==
    /\ iListings = <<>> /\ iStart = NoDate /\ iEnd = NoDate
    /\ iCalls = 0 /\ iTable0 = <<>> /\ iObs1 = <<>>
ControlIdle ==
    /\ cronDay = -1
    /\ pc = [p \in Procs |-> "idle"]
    /\ served = [p \in Procs |-> <<>>]
    /\ scraped = [p \in Procs |-> NoScrape]
    /\ cursor = [p \in Procs |-> 1]
    /\ asked = [p \in Procs |-> <<>>]
    /\ matched = [p \in Procs |-> <<>>]
    /\ existing = [p \in Procs |-> NoId]
    /\ pending = [p \in Procs |-> <<>>]
    /\ wlock = "free"
    /\ outcome = [p \in Procs |-> "none"]
    /\ failed = [p \in Procs |-> "none"]
    /\ fetches = [p \in Procs |-> 0]
    /\ writes = [p \in Procs |-> 0]
    /\ issued = {}
    /\ seen = <<>>

\* after init_db() on a new file: the three tables exist and are empty
Init ==
    /\ registry = EmptyRegistry
    /\ loads = 0
    /\ table = <<>>
    /\ elapsed = 0
    /\ ControlIdle
    /\ MatcherIdle
    /\ IngestIdle

Next ==
    \/ StartupEvent
    \/ CronFire
    \/ \E p \in Procs : Check(p)
    \/ \E p \in Procs : CheckFails(p)
    \/ \E p \in Procs : ScrapePage(p)
    \/ \E p \in Procs : ScrapeFails(p)
    \/ \E p \in Procs : Match(p)
    \/ \E p \in Procs : MatchFails(p)
    \/ \E p \in Procs : Process(p)
    \/ \E p \in Procs : Select(p)
    \/ \E p \in Procs : SelectFails(p)
    \/ \E p \in Procs : Execute(p)
    \/ \E p \in Procs : ExecuteFails(p)
    \/ \E p \in Procs : Commit(p)
    \/ \E p \in Procs : CommitFails(p)
    \/ ReadOnDuty
    \/ ConvertJson
    \/ Tick

Spec == Init /\ [][Next]_vars

\* ============================================== one call of the matcher

\* all texts over a character set, up to a length
Texts(chars, n) == UNION {[1..k -> chars] : k \in 0..n}

NameChars == {"a", "B"}
RawNames == Texts(NameChars, MaxNameLen)
CityTokens == {TANA, tana, Antananarivo, Nosy}

\* names a registry row may carry: two that differ in case only, one at
\* ratio 0.4 from two-letter names, one far from everything short
DbNames == { <<"A","b">>, <<"a","b">>, <<"a","b","b">>, <<"b","a","a","a","a">> }
DbRows == DbNames \X {Registry0.cities[i].id : i \in 1..Len(Registry0.cities)}

\* the registries of up to MaxPharm pharmacies in the two cities, ids 1..n
RegistryOf(rows) ==
    [cities |-> Registry0.cities,
     pharmacies |-> [i \in 1..Len(rows) |->
                        [id |-> i, city_id |-> rows[i][2], name |-> rows[i][1]]],
     city_seq |-> Registry0.city_seq]
Registries == {RegistryOf(rows) : rows \in UNION {[1..k -> DbRows] : k \in 0..MaxPharm}}

MatchInit ==
    /\ mName \in RawNames
    /\ mCity \in CityTokens
    /\ mReg \in Registries
    /\ NoCallYet
    /\ registry = Registry0 /\ loads = 1 /\ table = <<>> /\ elapsed = 0
    /\ ControlIdle
    /\ IngestIdle

\* Calls of _find_pharmacy_match(mName, mCity) against the registry mReg, one
\* after the other.  A call fetches its candidates, sets its locals, passes
\* the candidates one by one and returns; what the locals hold after the
\* return is what the call left, and the next call sets them again.

\* the call entered with best_ratio being what the call before left
MatchBegin_keep ==
    /\ mPos = 0
    /\ Len(mResult) < MaxCalls
    /\ LET pharmacies == CityPharmacies(mReg, MapCityName(mCity))
       IN  /\ mPharmacies' = pharmacies
           /\ IF pharmacies = <<>>
              THEN /\ mResult' = Append(mResult, NoId)
                   /\ UNCHANGED <<mPos, mBest>>
              ELSE /\ mBest' = [ratio |-> mBest.ratio, match |-> NoId]
                   /\ mPos' = 1
                   /\ UNCHANGED mResult
    /\ UNCHANGED <<registry, loads, table, elapsed, ctl, mName, mCity, mReg, mAt, ivars>>

\* scraper.py:49-69: the SELECT, the return of None for a city without
\* pharmacies, best_match = None and best_ratio = 0
MatchBegin ==
    /\ mPos = 0
    /\ Len(mResult) < MaxCalls
    /\ LET pharmacies == CityPharmacies(mReg, MapCityName(mCity))
       IN  /\ mPharmacies' = pharmacies
           /\ IF pharmacies = <<>>
              THEN /\ mResult' = Append(mResult, NoId)
                   /\ UNCHANGED <<mPos, mBest>>
              ELSE /\ mBest' = [ratio |-> Frac(0, 1), match |-> NoId]
                   /\ mPos' = 1
                   /\ UNCHANGED mResult
    /\ UNCHANGED <<registry, loads, table, elapsed, ctl, mName, mCity, mReg, mAt, ivars>>

\* scraper.py:71-75: one pass of the loop over the candidates
MatchStep ==
    /\ mPos \in 1..Len(mPharmacies)
    /\ LET ratio == Ratio(Lower(mName), Lower(mPharmacies[mPos].name))
       IN  mBest' = IF Improves(ratio, mBest.ratio)
                    THEN [ratio |-> ratio, match |-> mPharmacies[mPos].id]
                    ELSE mBest
    /\ mPos' = mPos + 1
    /\ UNCHANGED <<registry, loads, table, elapsed, ctl, mName, mCity, mReg,
                   mPharmacies, mResult, mAt, ivars>>

\* scraper.py:78-83: the threshold test and the return
MatchReturn ==
    /\ mPos = Len(mPharmacies) + 1
    /\ mResult' = Append(mResult, IF Accepts(mBest.ratio, SIMILARITY_THRESHOLD)
                                  THEN mBest.match ELSE NoId)
    /\ mPos' = 0
    /\ UNCHANGED <<registry, loads, table, elapsed, ctl, mName, mCity, mReg,
                   mPharmacies, mBest, mAt, ivars>>

\* _find_pharmacy_match(mName, mCity) against the registry mReg
MatchCall == MatchBegin \/ MatchStep \/ MatchReturn

\* values SIMILARITY_THRESHOLD may be set to
Thresholds == {Frac(0, 1), Frac(2, 5), Frac(1, 2), Frac(1, 1)}

\* the same call once more with SIMILARITY_THRESHOLD set to each of Thresholds
MatchCallAt ==
    /\ Len(mResult) = MaxCalls
    /\ mPos = 0
    /\ mAt = {}
    /\ mAt' = {<<t, FindPharmacyMatchAt(mName, mCity, mReg, t)>> : t \in Thresholds}
    /\ UNCHANGED <<registry, loads, table, elapsed, ctl, mName, mCity, mReg,
                   mPharmacies, mPos, mBest, mResult, ivars>>

MatchNext == MatchBegin \/ MatchStep \/ MatchReturn \/ MatchCallAt

SpecMatch == MatchInit /\ [][MatchNext]_vars

\* ============================ successive calls of process_scraped_pharmacies
\* The calls are those of the two invocations, each taken from the point where
\* it has its scrape result: the startup invocation calls
\* process_scraped_pharmacies(iListings, iStart, iEnd), and once it has
\* returned calls it again; the other invocation makes one call of its own.
\* The steps of the calls are those of the control loop and interleave as
\* they do there; the registry is loaded and stays as it is.

RawListings ==
    { Listing(<<"a","b">>, TANA),        \* pharmacy 1
      Listing(<<"b","b","a">>, TANA),    \* pharmacy 2
      Listing(<<"a","b">>, Nosy),        \* a city the registry does not cover
      Listing(<<"a","a","a">>, TANA),    \* best ratio 0.4: below the threshold
      Listing(<<>>, TANA),               \* no name
      Listing(<<"a","b">>, <<>>) }       \* no city token
ListingSeqs == UNION {[1..k -> RawListings] : k \in 0..MaxListings}

DateArgs == {NoDate, <<2025, 2, 7>>}

\* the roster before the calls: none yet, or the row an ingest of the day
\* before left
InitTables ==
    { <<>>, UpdateOnDuty(<<>>, <<2025, 1, 20>>, <<2025, 1, 26>>, <<3>>, 0) }

\* what the other invocation calls process_scraped_pharmacies with
OtherScrape ==
    [pharmacies |-> << Listing(<<"b","b","a">>, TANA) >>,
     start_date |-> <<2025, 3, 1>>, end_date |-> <<2025, 3, 7>>]

\* what the idempotence property observes of the roster
Obs(t) ==
    [count |-> Len(t),
     rows |-> [i \in 1..Len(t) |->
                  [start_date |-> t[i].start_date, end_date |-> t[i].end_date,
                   ids |-> {t[i].pharmacy_ids[k] : k \in 1..Len(t[i].pharmacy_ids)}]]]

IngestInit ==
    /\ registry = Registry0
    /\ loads = 1
    /\ table \in InitTables
    /\ iTable0 = table
    /\ iListings \in ListingSeqs
    /\ iStart \in DateArgs
    /\ iEnd \in DateArgs
    /\ iCalls = 0
    /\ iObs1 = <<>>
    /\ elapsed = 1
    /\ ControlIdle
    /\ MatcherIdle

\* process_scraped_pharmacies entered by invocation p with its scrape result
Enter(p, result) ==
    /\ scraped' = [scraped EXCEPT ![p] = result]
    /\ pc' = [pc EXCEPT ![p] = "process"]
    /\ outcome' = [outcome EXCEPT ![p] = "running"]
    /\ failed' = [failed EXCEPT ![p] = "none"]
    /\ writes' = [writes EXCEPT ![p] = 0]
    /\ UNCHANGED <<registry, loads, table, elapsed, cronDay, served, cursor,
                   asked, matched, existing, pending, wlock, fetches, issued,
                   seen, mvars, iListings, iStart, iEnd, iTable0>>

\* the startup invocation calls process_scraped_pharmacies(iListings, iStart,
\* iEnd); before its second call, what the first left is noted
IngestCall ==
    /\ pc["startup"] \in {"idle", "done"}
    /\ iCalls < MaxCalls
    /\ Enter("startup", [pharmacies |-> iListings, start_date |-> iStart,
                         end_date |-> iEnd])
    /\ iCalls' = iCalls + 1
    /\ iObs1' = IF iCalls = 1
                THEN <<[obs |-> Obs(table), how |-> outcome["startup"]]>>
                ELSE iObs1

\* the other invocation calls it, once
OtherCall ==
    /\ pc["cron"] = "idle"
    /\ Enter("cron", OtherScrape)
    /\ UNCHANGED <<iCalls, iObs1>>

IngestNext ==
    \/ IngestCall
    \/ OtherCall
    \/ \E p \in Procs : Match(p)
    \/ \E p \in Procs : MatchFails(p)
    \/ \E p \in Procs : Process(p)
    \/ \E p \in Procs : Select(p)
    \/ \E p \in Procs : SelectFails(p)
    \/ \E p \in Procs : Execute(p)
    \/ \E p \in Procs : ExecuteFails(p)
    \/ \E p \in Procs : Commit(p)
    \/ \E p \in Procs : CommitFails(p)

SpecIngest == IngestInit /\ [][IngestNext]_vars

\* ============================== the control loop of one process, recovering
\* Within one process the startup call and the job of the AsyncIOScheduler run
\* on one event loop, and check_and_update_on_duty never awaits: an invocation
\* runs to its return before the other starts.  Every started invocation
\* returns, the daily job fires every day it can and days keep passing, which
\* is the fairness stated.
\* Until HealDay the site may fail or serve any page and the storage may fail;
\* from HealDay on every request is answered with a page whose date range has
\* not ended, and the storage works.

Healed == elapsed >= HealDay

\* the title holds a valid date range that has not ended today
GoodPage(page, today) ==
    /\ page.title.match
    /\ ValidDMY(page.title.s) /\ ValidDMY(page.title.e)
    /\ ~DateGT(today, <<page.title.e[3], page.title.e[2], page.title.e[1]>>)

NoneRunning == \A q \in Procs : pc[q] \in {"idle", "done"}

LiveStartup == NoneRunning /\ StartupEvent
\* the job is added by startup_event (main.py:74-79), which then runs its own
\* check (main.py:82) to the end: the job first runs after that
LiveCron == pc["startup"] = "done" /\ NoneRunning /\ CronFire
LiveScrape(p) == ScrapePage(p) /\ (Healed => GoodPage(served'[p][1], Today))
LiveCheckFails(p) == ~Healed /\ CheckFails(p)
LiveScrapeFails(p) == ~Healed /\ ScrapeFails(p)
LiveMatchFails(p) == ~Healed /\ MatchFails(p)
LiveSelectFails(p) == ~Healed /\ SelectFails(p)
LiveExecuteFails(p) == ~Healed /\ ExecuteFails(p)
LiveCommitFails(p) == ~Healed /\ CommitFails(p)

\* the steps of an invocation other than the passes of the matching loop,
\* and its start
LiveWork ==
    \/ LiveStartup
    \/ LiveCron
    \/ \E p \in Procs : Check(p)
    \/ \E p \in Procs : LiveCheckFails(p)
    \/ \E p \in Procs : LiveScrape(p)
    \/ \E p \in Procs : LiveScrapeFails(p)
    \/ \E p \in Procs : LiveMatchFails(p)
    \/ \E p \in Procs : Process(p)
    \/ \E p \in Procs : Select(p)
    \/ \E p \in Procs : LiveSelectFails(p)
    \/ \E p \in Procs : Execute(p)
    \/ \E p \in Procs : LiveExecuteFails(p)
    \/ \E p \in Procs : Commit(p)
    \/ \E p \in Procs : LiveCommitFails(p)

\* the latest row's end date does not parse: every expiry check from now on
\* raises at main.py:47, before it reads today's date, and writes nothing
Unreadable == table # <<>> /\ ~ParsesISO(table[Len(table)].end_date)

\* Another day passes after the last one the clock tells apart.  With the
\* latest end date unreadable and no invocation running, no later step reads
\* the date or changes the table: the days that follow differ in nothing but
\* that the daily job fires again.
LaterDay ==
    /\ elapsed = MaxDays
    /\ cronDay = elapsed
    /\ Unreadable
    /\ NoneRunning
    /\ cronDay' = elapsed - 1
    /\ UNCHANGED <<registry, loads, table, elapsed, pc, work, wlock, outcome,
                   failed, fetches, writes, issued, seen, mvars, ivars>>

LiveNext ==
    \/ LiveWork
    \/ \E p \in Procs : Match(p)
    \/ ConvertJson
    \/ Tick
    \/ LaterDay

\* the matching loop ends: no invocation stays in it for ever
MatchingEnds == \A p \in Procs : []<>(~InLoop(p))

SpecLive ==
    /\ Init /\ [][LiveNext]_vars
    /\ WF_vars(LiveWork) /\ MatchingEnds
    /\ WF_vars(Tick \/ LaterDay)

\* ================================================================= claims

\* an invocation between its decision to ingest and its return
Ingesting(p) == pc[p] \in {"scrape", "process", "select", "execute", "commit"}

\* an invocation that has returned after committing a roster write
Reconciled(p) ==
    pc[p] = "done" /\ outcome[p] = "completed" /\ failed[p] = "none" /\ writes[p] = 1

\* C1: when the startup check and the daily check overlap on an absent or
\* expired roster, only one of them runs an ingest: the two are never both
\* between their decision to ingest and their return.
C1_SingleFlight == ~(Ingesting("startup") /\ Ingesting("cron"))

\* C2: the roster table never holds more than one row, and holds exactly one
\* once an invocation has committed a reconciliation.
C2_SingletonRoster ==
    /\ Len(table) <= 1
    /\ (\E p \in Procs : Reconciled(p)) => Len(table) = 1

\* C3: every roster row a reader can be given, and the row the last /on-duty
\* request was given, carries the period, the identifier list and the update
\* timestamp of one and the same reconciliation.
C3_ReaderSeesOneReconciliation ==
    /\ \A i \in 1..Len(table) : Written(table[i]) \in issued
    /\ seen # <<>> => Written(seen[1]) \in issued

\* a reader was given a row that a second reconciliation had overwritten
C3_Witness ==
    /\ seen # <<>>
    /\ seen[1].updated_at > seen[1].created_at
    /\ seen[1].pharmacy_ids = <<3, 2>>
    /\ Cardinality(issued) >= 2

\* C4: calling the reconciler again with the same period and identifiers
\* leaves the row count, the period and the identifier set as the first call
\* left them, whether or not a roster existed before: of two calls in
\* succession that both ran to their end, with no write of another caller.
C4_Idempotent ==
    (/\ iCalls = 2 /\ pc["startup"] = "done"
     /\ outcome["startup"] = "completed" /\ iObs1[1].how = "completed"
     /\ writes["cron"] = 0)
        => Obs(table) = iObs1[1].obs

\* two calls with a period and a listing that matches, on no roster: the
\* first inserted the row, the second rewrote it
C4_Witness ==
    /\ iCalls = 2 /\ pc["startup"] = "done"
    /\ outcome["startup"] = "completed" /\ iObs1[1].how = "completed"
    /\ writes["cron"] = 0
    /\ iStart # NoDate /\ iEnd # NoDate
    /\ iTable0 = <<>>
    /\ Len(table) = 1
    /\ table[1].pharmacy_ids # <<>>
    /\ table[1].end_date = iEnd

\* C5: with the start date or the end date missing, process_scraped_pharmacies
\* leaves the roster table as it was, whatever the listings: the call never
\* reaches the reconciler and executes no write, and with no write of another
\* caller the table is the one before the call.
C5_AbsentPeriodNoWrite ==
    /\ \A p \in Procs :
          (scraped[p].start_date = NoDate \/ scraped[p].end_date = NoDate) =>
              pc[p] \notin {"select", "execute", "commit"}
    /\ (iStart = NoDate \/ iEnd = NoDate) =>
          /\ writes["startup"] = 0
          /\ writes["cron"] = 0 => table = iTable0

\* called with a start date, no end date and a listing that matches, on an
\* existing roster, the call has returned
C5_Witness ==
    /\ iCalls >= 1 /\ pc["startup"] = "done" /\ outcome["startup"] = "completed"
    /\ iStart # NoDate /\ iEnd = NoDate
    /\ iTable0 # <<>>
    /\ MatchAll(iListings, registry, 1) # <<>>

\* C6: the expiry check, its SELECT of the end date answered, goes on to fetch
\* exactly when there is no roster or today is after the end date of the
\* roster it read; otherwise it returns with no fetch and the table untouched.
\* No fetch happens but after that decision.
C6_FetchIffAbsentOrExpired ==
    [][\A p \in Procs :
         /\ (pc[p] = "check" /\ pc'[p] # "check" /\ failed'[p] # "storage") =>
               /\ (pc'[p] = "scrape") <=>
                     (table = <<>> \/ DateGT(Today, table[Len(table)].end_date))
               /\ pc'[p] # "scrape" =>
                     (pc'[p] = "done" /\ table' = table /\ fetches'[p] = 0)
         /\ fetches'[p] > fetches[p] => pc[p] = "scrape"]_vars

\* C7: from the step at which its ingest fails, an invocation changes nothing
\* in the roster table, and the failure does not leave the expiry check as an
\* exception.
C7_FailedIngestLeavesRoster ==
    [][\A p \in Procs :
         (failed'[p] # "none" /\ pc'[p] # pc[p]) =>
             (table' = table /\ outcome'[p] # "raised")]_vars

\* a commit failed on an existing roster and the check caught it
C7_Witness ==
    \E p \in Procs :
        /\ pc[p] = "done" /\ failed[p] = "storage" /\ outcome[p] = "caught"
        /\ writes[p] = 1
        /\ table # <<>>

\* C8: one invocation of the expiry check fetches at most once and executes
\* at most one roster write, also when the fetch fails.
C8_OneFetchOneWrite ==
    \A p \in Procs : fetches[p] <= 1 /\ writes[p] <= 1

\* an invocation whose only fetch failed has returned without writing
C8_Witness ==
    \E p \in Procs :
        /\ pc[p] = "done" /\ failed[p] = "fetch"
        /\ fetches[p] = 1 /\ writes[p] = 0

\* the candidates of the call and their ratios, for C9
MCands == CityPharmacies(mReg, MapCityName(mCity))
MRatio(i) == Ratio(Lower(mName), Lower(MCands[i].name))

\* C9: no candidates in the city, no match; otherwise the result is the first
\* candidate among those of the highest ratio if that ratio is above the
\* threshold, and no match if it is equal or below.
C9_MatcherSelectsBest ==
    mResult # <<>> =>
        LET cands == MCands
            name == Lower(mName)
            r == [i \in 1..Len(cands) |-> Ratio(name, Lower(cands[i].name))]
        IN  IF cands = <<>> THEN mResult[1] = NoId
            ELSE LET best == CHOOSE i \in 1..Len(cands) :
                                /\ \A j \in 1..Len(cands) : ~FracGT(r[j], r[i])
                                /\ \A j \in 1..(i - 1) : FracGT(r[i], r[j])
                 IN  mResult[1] = IF FracGT(r[best], Frac(2, 5))
                                  THEN cands[best].id
                                  ELSE NoId

\* two candidates tie above the threshold and the first is returned
C9_Witness ==
    /\ mResult # <<>>
    /\ Len(MCands) = 2
    /\ FracEQ(MRatio(1), MRatio(2))
    /\ FracGT(MRatio(1), Frac(2, 5))
    /\ mResult[1] = MCands[1].id

\* a text without repeated elements
NoDuplicates(ids) == \A i, j \in 1..Len(ids) : ids[i] = ids[j] => i = j

RECURSIVE FirstOccurrences(_)
\* ids with every repetition of an earlier element dropped
FirstOccurrences(ids) ==
    IF ids = <<>> THEN <<>>
    ELSE LET front == FirstOccurrences(SubSeq(ids, 1, Len(ids) - 1))
             last == ids[Len(ids)]
         IN  IF \E k \in 1..Len(front) : front[k] = last
             THEN front ELSE Append(front, last)

\* the row of the open write transaction of invocation p
WrittenRow(p) ==
    pending[p][IF existing[p] # NoId THEN existing[p] ELSE Len(pending[p])]

\* C10: the identifier list an ingest persists has no duplicate and lists the
\* matched identifiers in order of first match.
C10_NoDuplicateIds ==
    \A p \in Procs :
        pc[p] = "commit" =>
            /\ NoDuplicates(WrittenRow(p).pharmacy_ids)
            /\ WrittenRow(p).pharmacy_ids =
                   FirstOccurrences(MatchAll(scraped[p].pharmacies, registry, 1))

\* the listings of a call that yielded an identifier, in order, read off the
\* matcher listing by listing
MatchedOf(listings, reg) ==
    LET id(i) == IF listings[i].name # <<>> /\ listings[i].city # <<>>
                 THEN FindPharmacyMatch(listings[i].name, listings[i].city, reg)
                 ELSE NoId
        RECURSIVE From(_)
        From(i) == IF i > Len(listings) THEN <<>>
                   ELSE (IF id(i) # NoId THEN <<id(i)>> ELSE <<>>) \o From(i + 1)
    IN  From(1)

\* a listing that reaches the matcher and comes back with no match
Unmatched(listing, reg) ==
    /\ listing.name # <<>> /\ listing.city # <<>>
    /\ FindPharmacyMatch(listing.name, listing.city, reg) = NoId

\* C11: a listing without a match does not end the run: the loop goes on to
\* the last listing, and with a present period the row written holds exactly
\* the identifiers of the listings that did match, those after an unmatched
\* listing included.
C11_NoMatchDoesNotAbort ==
    \A p \in Procs :
        /\ pc[p] \in {"select", "execute", "commit"} =>
               cursor[p] = Len(scraped[p].pharmacies) + 1
        /\ pc[p] = "commit" =>
               WrittenRow(p).pharmacy_ids = MatchedOf(scraped[p].pharmacies, registry)

\* the first listing stayed below the threshold in a city that has
\* candidates, the second matched, and the roster holds the second
C11_Witness ==
    /\ iCalls >= 1 /\ pc["startup"] = "done" /\ outcome["startup"] = "completed"
    /\ writes["cron"] = 0
    /\ iStart # NoDate /\ iEnd # NoDate
    /\ Len(iListings) = 2
    /\ Unmatched(iListings[1], registry)
    /\ CityPharmacies(registry, MapCityName(iListings[1].city)) # <<>>
    /\ table[1].pharmacy_ids = <<FindPharmacyMatch(iListings[2].name, iListings[2].city, registry)>>
    /\ table[1].pharmacy_ids # <<NoId>>

\* a page without a table of the results id, and a page whose title holds
\* two valid dates
NoResultsTable(page) ==
    \A k \in 1..Len(page.tables) : page.tables[k].id # "datatable-buttons"
HasPeriod(page) ==
    page.title.match /\ ValidDMY(page.title.s) /\ ValidDMY(page.title.e)

\* C12: an invocation served a page with a valid date range and no results
\* table holds an empty listing sequence, goes on to the reconciler, and the
\* row its commit writes carries the period of the title and no identifier.
C12_NoTableWritesEmptyRoster ==
    [][\A p \in Procs :
         (served[p] # <<>> /\ NoResultsTable(served[p][1]) /\ HasPeriod(served[p][1])) =>
             LET title == served[p][1].title
                 id == IF existing[p] # NoId THEN existing[p] ELSE Len(table')
             IN  /\ scraped[p].pharmacies = <<>>
                 /\ (pc[p] = "process" /\ pc'[p] # "process") => pc'[p] = "select"
                 /\ (pc[p] = "commit" /\ outcome'[p] = "completed") =>
                        /\ table'[id].start_date = <<title.s[3], title.s[2], title.s[1]>>
                        /\ table'[id].end_date = <<title.e[3], title.e[2], title.e[1]>>
                        /\ table'[id].pharmacy_ids = <<>>]_vars

\* the roster of January, with an identifier, was replaced a day later by the
\* period of the page without a results table and no identifier
C12_Witness ==
    /\ Len(table) = 1
    /\ table[1].end_date = <<2025, 2, 7>>
    /\ table[1].pharmacy_ids = <<>>
    /\ table[1].updated_at > table[1].created_at
    /\ \E w \in issued : w.pharmacy_ids # <<>> /\ w.at < table[1].updated_at

\* C13: raising the acceptance threshold never turns a no-match into a match:
\* of the same call at two thresholds t1 <= t2, no match at t1 means no match
\* at t2, and a match at t2 is the identifier returned at t1.
C13_ThresholdMonotone ==
    \A x, y \in mAt :
        ~FracGT(x[1], y[1]) =>
            /\ x[2] = NoId => y[2] = NoId
            /\ y[2] # NoId => y[2] = x[2]

\* a match at one threshold is kept at a higher one and lost at a third
C13_Witness ==
    \E x, y, z \in mAt :
        /\ FracGT(y[1], x[1]) /\ FracGT(z[1], y[1])
        /\ x[2] # NoId /\ y[2] = x[2] /\ z[2] = NoId
        /\ FracGT(Frac(1, 1), z[1])

\* C14: successive calls of the matcher with the same registry snapshot, raw
\* name and city return the same result: whatever the calls before have left,
\* a call in its loop holds the best of the candidates it has passed and
\* nothing else, and every call made so far has returned what the first did.
C14_MatcherDeterministic ==
    /\ mPos > 0 =>
          /\ mPharmacies = MCands
          /\ mBest = BestMatch(mName, SubSeq(MCands, 1, mPos - 1), 1,
                               [ratio |-> Frac(0, 1), match |-> NoId])
    /\ \A i, j \in 1..Len(mResult) : mResult[i] = mResult[j]

\* two calls, two candidates tied at the best ratio above the threshold, and
\* both calls returned the first of them
C14_Witness ==
    /\ Len(mResult) >= 2 /\ mPos = 0
    /\ Len(MCands) = 2
    /\ FracEQ(MRatio(1), MRatio(2))
    /\ FracGT(MRatio(1), Frac(2, 5))
    /\ mResult[1] = MCands[1].id /\ mResult[2] = MCands[1].id

RECURSIVE Loaded(_)
\* the registry after n runs of the dataset converter and nothing else
Loaded(n) ==
    IF n = 0 THEN EmptyRegistry
    ELSE ConvertJsonToSqlite(Loaded(n - 1), Dataset0, 1)

\* C15: whatever expiry checks and ingests have run, the cities and
\* pharmacies are those the runs of the dataset converter left: no step of
\* the core has added, changed or removed one.
C15_RegistryReadOnly == registry = Loaded(loads)

\* both invocations have returned, one after committing a roster that refers
\* to pharmacies of the registry
C15_Witness ==
    /\ \A p \in Procs : pc[p] = "done"
    /\ \E p \in Procs : Reconciled(p)
    /\ table # <<>>
    /\ table[1].pharmacy_ids # <<>>
    /\ \A k \in 1..Len(table[1].pharmacy_ids) :
           \E i \in 1..Len(registry.pharmacies) :
               registry.pharmacies[i].id = table[1].pharmacy_ids[k]

\* C17: the row the expiry check and the /on-duty query read (highest id) is
\* the row the reconciler overwrites (lowest id), and a committed
\* reconciliation leaves in the row that is read the period and the
\* identifiers it wrote.
C17_ReadRowIsWrittenRow ==
    [][/\ table' # <<>> => table'[Len(table')].id = table'[1].id
       /\ \A p \in Procs :
            (pc[p] = "commit" /\ outcome'[p] = "completed") =>
                /\ table'[Len(table')].start_date = scraped[p].start_date
                /\ table'[Len(table')].end_date = scraped[p].end_date
                /\ table'[Len(table')].pharmacy_ids = matched[p]]_vars

\* C18: the matcher is called for the listings that have both a name and a
\* city token, for all of them and for no other, and the row written holds
\* the identifiers those calls returned: a listing without a name or without
\* a city token contributes none and does not stop the run.
C18_IncompleteListingSkipped ==
    \A p \in Procs :
        LET Complete(l) == l.name # <<>> /\ l.city # <<>>
            NotNone(id) == id # NoId
            passed == SubSeq(scraped[p].pharmacies, 1, cursor[p] - 1)
            answers == [k \in 1..Len(asked[p]) |->
                           FindPharmacyMatch(asked[p][k].name, asked[p][k].city,
                                             registry)]
        IN  /\ asked[p] = SelectSeq(passed, Complete)
            /\ pc[p] \in {"select", "execute", "commit"} =>
                   passed = scraped[p].pharmacies
            /\ pc[p] = "commit" =>
                   WrittenRow(p).pharmacy_ids = SelectSeq(answers, NotNone)

\* the first listing has no city token, the second is complete: only the
\* second reached the matcher, and the row written holds its identifier
C18_Witness ==
    /\ pc["startup"] = "commit"
    /\ Len(iListings) = 2
    /\ iListings[1].name # <<>> /\ iListings[1].city = <<>>
    /\ asked["startup"] = <<iListings[2]>>
    /\ Len(WrittenRow("startup").pharmacy_ids) = 1

\* ROSTER_VALID: there is a roster and today is not after its end date
RosterValid ==
    table # <<>> /\ ~DateGT(Today, table[Len(table)].end_date)

\* C16: once every fetch succeeds with a date range that has not ended, an
\* absent or expired roster becomes valid, and an expiry check that finds the
\* roster valid triggers no ingest.
C16_SelfHealing ==
    /\ (Healed /\ ~RosterValid) ~> RosterValid
    /\ [][\A p \in Procs :
            (RosterValid /\ pc[p] = "check") => pc'[p] # "scrape"]_vars

=============================================================================
